---- MODULE Spec2Model ----
(***************************************************************************)
(* Interrupt-to-future bridge of async-stm32f1xx: the waker slot and its   *)
(* mask/store/unpend/unmask install protocol (src/lib.rs, src/exti.rs),    *)
(* the interrupt handlers, and the futures, sink and stream built on them  *)
(* (src/timer.rs, src/serial.rs, src/exti.rs).                             *)
(*                                                                         *)
(* Hardware is modelled as the STM32F1 / Cortex-M3 behaves: a peripheral   *)
(* flag (TIM UIF, DMA HTIF/TCIF, EXTI PR) drives a level-sensitive request *)
(* line into the NVIC; the NVIC latches "pending" when the line rises,     *)
(* keeps it while the vector is masked, and a software clear-pending has   *)
(* no effect while the line is still asserted.  An enabled pending vector  *)
(* preempts the task before its next step (single core).                   *)
(***************************************************************************)
EXTENDS Naturals, Sequences, FiniteSets, TLC

\* ------------------------------------------------------------------ bounds
MaxGen == 2        \* futures created per source
MaxCount == 2      \* largest countdown, in timer ticks
InitPeriod == 1    \* ticks of the 1 Hz countdown started by the conversion
MaxSends == 3      \* buffers submitted to the sink
MaxHalves == 4     \* half-buffer completions of the circular receive DMA
MaxEdges == 2      \* edges detected per pin

\* ------------------------------------------------------------ vocabulary
SingleVectors == {"TIM2", "DMA1_CHANNEL4", "DMA1_CHANNEL5"}
Pins == {"PA5", "PA6"}
Vectors == SingleVectors \cup {"EXTI9_5"}
\* A source names one waker slot: the static WAKER of a single-slot vector,
\* or the element of the static array EXTI9_5 that belongs to a pin.
Sources == SingleVectors \cup Pins
VecOf(s) == IF s \in Pins THEN "EXTI9_5" ELSE s
WAKER_NONE == 0
Items == {1, 2}

VARIABLES
    app,        \* the peripheral the application drives in this run
    masked,     \* NVIC: vector -> disabled?
    pend,       \* NVIC: vector -> pending latch
    WAKER,      \* source -> stored waker (WAKER_NONE or the future's number)
    pc,         \* position of the running poll: "idle" or the install step
    cur,        \* arguments of the install in progress
    fatal,      \* panic message once the program has aborted, else "none"
    gen,        \* source -> number of the current future (0: none yet)
    last,       \* source -> result of the latest poll of the current future
    done,       \* source -> the current future has returned ready
    afterDone,  \* source -> result of the latest poll made after completion
    woken,      \* source -> waker the handler resumed since the last store
    resumes,    \* vector -> handler runs that resumed, this install cycle
    evInCycle,  \* vector -> hardware event at or after the cycle's mask step
    isrFlag,    \* vector -> request line as seen by the latest handler run
    fired,      \* vector -> handler ran since the last unmask
    evAtUnmask, \* source -> its event flag was set at its latest unmask step
    uif, cnt, arr,      \* timer: update flag, counter, reload value
    elapsed, nReady,    \* ticks since delay_for; ready results of this Delay
    sink,       \* TxSink: "Ready", "Sending", "None" (taken), "Released"
    transfer,   \* the Option inside the TransferFuture: "Some" or "None"
    txbuf,      \* contents of the buffer the sink owns
    txEn, tcif, \* transmit DMA channel: enabled, transfer-complete flag
    wire,       \* buffer contents the transmit DMA has put on the wire
    submitted,  \* items passed to start_send
    started,    \* hardware transfers started by tx.write
    releasing,  \* release() is awaiting close()
    releasedFrom, \* state the sink was in when release() was called
    rebuilt,    \* the sink was made by new from what release returned
    sinkOps,    \* first operations on this sink and their results
    sinkObs,    \* latest operation on the sink, its result, a parity bit
    stream,     \* RxStream: "Active" or "Released"
    rxEn, rxHtif, rxTcif,   \* receive DMA channel: enabled, half/complete flags
    rxPos,      \* half the receive DMA is writing
    rxbuf,      \* half -> contents
    readable_half,   \* CircBuffer's record of the readable half
    last_read_half,  \* RxStream's marker of the last delivered half
    peeked,     \* what the peek closure returned, until the overrun check
    filled,     \* halves completed by the hardware, in order
    delivered,  \* data items poll_next produced, in order
    rxErrs,     \* error items poll_next produced (saturating)
    overrun,    \* a half completed with the one before undelivered or in peek
    restarted,  \* the stream was made by new from what release returned
    pr,         \* EXTI pending register: pin -> edge detected
    edges,      \* pin -> edges the EXTI has detected
    latched,    \* pin -> edges that set the pin's pending flag from clear
    readys,     \* pin -> ready results of the pin's AsyncTrigger polls
    orphan,     \* source -> the future dropped while pending, and whether
                \* the handler has resumed its continuation since
    isrRuns     \* runs of the shared vector's handler (saturating)

nvicVars == <<masked, pend, WAKER>>
taskVars == <<pc, cur, fatal, gen, last, done, afterDone>>
obsVars == <<woken, resumes, evInCycle, isrFlag, fired, evAtUnmask>>
timVars == <<uif, cnt, arr, elapsed, nReady>>
txVars == <<sink, transfer, txbuf, txEn, tcif, wire, submitted, started,
            releasing, releasedFrom, rebuilt, sinkOps, sinkObs>>
rxVars == <<stream, rxEn, rxHtif, rxTcif, rxPos, rxbuf, readable_half,
            last_read_half, peeked, filled, delivered, rxErrs, overrun,
            restarted>>
extiVars == <<pr, edges, latched, readys>>
devVars == <<timVars, txVars, rxVars, extiVars>>
vars == <<app, nvicVars, taskVars, obsVars, devVars, orphan, isrRuns>>

\* --------------------------------------------------------------- hardware
\* Request line of a vector: the OR of its enabled peripheral flags.
Line(v) ==
    CASE v = "TIM2" -> uif
      [] v = "DMA1_CHANNEL4" -> tcif
      [] v = "DMA1_CHANNEL5" -> rxHtif \/ rxTcif
      [] v = "EXTI9_5" -> \E p \in Pins : pr[p]

\* The hardware flag a source's future checks before it installs.
EventFlag(s) ==
    CASE s = "TIM2" -> uif
      [] s = "DMA1_CHANNEL4" -> tcif
      [] s = "DMA1_CHANNEL5" -> rxHtif \/ rxTcif
      [] OTHER -> pr[s]

\* Interrupt enable state out of reset: every vector disabled.  No
\* constructor of the crate enables a vector; only an install does.
ResetMask_Enabled == [v \in Vectors |-> FALSE]
ResetMask == [v \in Vectors |-> TRUE]

IsrRunnable(v) == ~masked[v] /\ pend[v]
\* The task runs only when no handler can preempt it and it has not panicked.
TaskCanRun == fatal = "none" /\ \A v \in Vectors : ~IsrRunnable(v)

NvicMask(m, v) == [m EXCEPT ![v] = TRUE]
NvicUnmask_Noop(m, v) == m
NvicUnmask(m, v) == [m EXCEPT ![v] = FALSE]
NvicUnpend_Always(p, v, line) == [p EXCEPT ![v] = FALSE]
\* Clear-pending: ignored while the level-sensitive line is asserted.
NvicUnpend(p, v, line) == [p EXCEPT ![v] = line]

\* Dropping a future runs no code of the crate (no future has a Drop impl):
\* the future that is replaced on source s was abandoned pending and
\* unresumed, or it was not.
NoOrphan == [id |-> WAKER_NONE, woke |-> FALSE]
Drop(s) ==
    IF last[s] = "pending" /\ woken[s] # gen[s]
    THEN [id |-> gen[s], woke |-> FALSE] ELSE NoOrphan
\* The handler wakes what the slots in S hold, be it a dropped future's.
StaleWake(S) ==
    [s \in Sources |->
        IF s \in S /\ WAKER[s] # WAKER_NONE /\ WAKER[s] = orphan[s].id
             /\ WAKER[s] < gen[s]
        THEN [orphan[s] EXCEPT !.woke = TRUE] ELSE orphan[s]]

\* ------------------------------------------------- install (waker_interrupt!)
StartInstall(s) ==
    /\ pc' = "mask"
    /\ cur' = [src |-> s, waker |-> gen[s]]

InstallMask_Skip ==
    /\ pc = "mask" /\ TaskCanRun
    /\ pc' = "store"
    /\ resumes' = [resumes EXCEPT ![VecOf(cur.src)] = 0]
    /\ evInCycle' = [evInCycle EXCEPT ![VecOf(cur.src)] = FALSE]
    /\ UNCHANGED <<app, isrRuns, orphan, masked, pend, WAKER, cur, fatal, gen, last, done,
                   afterDone, woken, isrFlag, fired, evAtUnmask, devVars>>

InstallMask ==
    /\ pc = "mask" /\ TaskCanRun
    /\ masked' = NvicMask(masked, VecOf(cur.src))
    /\ pc' = "store"
    /\ resumes' = [resumes EXCEPT ![VecOf(cur.src)] = 0]
    /\ evInCycle' = [evInCycle EXCEPT ![VecOf(cur.src)] = FALSE]
    /\ UNCHANGED <<app, isrRuns, orphan, pend, WAKER, cur, fatal, gen, last, done, afterDone,
                   woken, isrFlag, fired, evAtUnmask, devVars>>

\* The slot an install of source s writes: the static WAKER of its vector,
\* or the element of the shared vector's array the pin's impl names.
SlotOf_Shared(s) == IF s \in Pins THEN "PA5" ELSE s
SlotOf(s) == s

InstallStore_KeepOccupied ==
    /\ pc = "store" /\ TaskCanRun
    /\ WAKER' = IF WAKER[SlotOf(cur.src)] # WAKER_NONE THEN WAKER
                ELSE [WAKER EXCEPT ![SlotOf(cur.src)] = cur.waker]
    /\ woken' = [woken EXCEPT ![cur.src] = WAKER_NONE]
    /\ pc' = "unpend"
    /\ UNCHANGED <<app, isrRuns, orphan, masked, pend, cur, fatal, gen, last, done,
                   afterDone, resumes, evInCycle, isrFlag, fired, evAtUnmask,
                   devVars>>

InstallStore ==
    /\ pc = "store" /\ TaskCanRun
    /\ WAKER' = [WAKER EXCEPT ![SlotOf(cur.src)] = cur.waker]
    /\ woken' = [woken EXCEPT ![cur.src] = WAKER_NONE]
    /\ pc' = "unpend"
    /\ UNCHANGED <<app, isrRuns, orphan, masked, pend, cur, fatal, gen, last, done, afterDone,
                   resumes, evInCycle, isrFlag, fired, evAtUnmask, devVars>>

InstallUnpend_Skip ==
    /\ pc = "unpend" /\ TaskCanRun
    /\ pc' = "unmask"
    /\ UNCHANGED <<app, isrRuns, orphan, masked, pend, WAKER, cur, fatal, gen, last, done,
                   afterDone, obsVars, devVars>>

InstallUnpend ==
    /\ pc = "unpend" /\ TaskCanRun
    /\ pend' = NvicUnpend(pend, VecOf(cur.src), Line(VecOf(cur.src)))
    /\ pc' = "unmask"
    /\ UNCHANGED <<app, isrRuns, orphan, masked, WAKER, cur, fatal, gen, last, done, afterDone,
                   obsVars, devVars>>

InstallUnmask_Forgot ==
    /\ pc = "unmask" /\ TaskCanRun
    /\ fired' = [fired EXCEPT ![VecOf(cur.src)] = FALSE]
    /\ pc' = "idle"
    /\ last' = [last EXCEPT ![cur.src] = "pending"]
    /\ evAtUnmask' = [evAtUnmask EXCEPT ![cur.src] = EventFlag(cur.src)]
    /\ UNCHANGED <<app, isrRuns, orphan, masked, pend, WAKER, cur, fatal, gen, done, afterDone,
                   woken, resumes, evInCycle, isrFlag, devVars>>

InstallUnmask ==
    /\ pc = "unmask" /\ TaskCanRun
    /\ masked' = NvicUnmask(masked, VecOf(cur.src))
    /\ fired' = [fired EXCEPT ![VecOf(cur.src)] = FALSE]
    /\ pc' = "idle"
    /\ last' = [last EXCEPT ![cur.src] = "pending"]
    /\ UNCHANGED <<app, isrRuns, orphan, pend, WAKER, cur, fatal, gen, done, afterDone,
                   woken, resumes, evInCycle, isrFlag, devVars>>
    /\ evAtUnmask' = [evAtUnmask EXCEPT ![cur.src] = EventFlag(cur.src)]

\* ------------------------------------------- handler of a single-slot vector
IsrMask_Skip(m, v) == m
IsrMask(m, v) == [m EXCEPT ![v] = TRUE]

WakerInterrupt_Take(v) ==
    /\ orphan' = StaleWake({v})
    /\ v \in SingleVectors /\ IsrRunnable(v)
    /\ isrFlag' = [isrFlag EXCEPT ![v] = Line(v)]
    /\ IF WAKER[v] # WAKER_NONE
       THEN /\ woken' = [woken EXCEPT ![v] = WAKER[v]]
            /\ resumes' = [resumes EXCEPT ![v] = IF @ < 2 THEN @ + 1 ELSE @]
            /\ masked' = IsrMask(masked, v)
       ELSE UNCHANGED <<woken, resumes, masked>>
    /\ WAKER' = [WAKER EXCEPT ![v] = WAKER_NONE]
    /\ fired' = [fired EXCEPT ![v] = TRUE]
    /\ pend' = [pend EXCEPT ![v] = Line(v)]
    /\ UNCHANGED <<app, isrRuns, taskVars, evInCycle, evAtUnmask, devVars>>

\* waker_interrupt! handler: wake the stored waker by reference and mask the
\* vector if the slot is occupied; nothing otherwise.
WakerInterrupt(v) ==
    /\ orphan' = StaleWake({v})
    /\ v \in SingleVectors /\ IsrRunnable(v)
    /\ isrFlag' = [isrFlag EXCEPT ![v] = Line(v)]
    /\ IF WAKER[v] # WAKER_NONE
       THEN /\ woken' = [woken EXCEPT ![v] = WAKER[v]]
            /\ resumes' = [resumes EXCEPT ![v] = IF @ < 2 THEN @ + 1 ELSE @]
            /\ masked' = IsrMask(masked, v)
       ELSE UNCHANGED <<woken, resumes, masked>>
    /\ fired' = [fired EXCEPT ![v] = TRUE]
    \* on return the line, still asserted, makes the vector pending again
    /\ pend' = [pend EXCEPT ![v] = Line(v)]
    /\ UNCHANGED <<app, isrRuns, WAKER, taskVars, evInCycle, evAtUnmask, devVars>>

\* --------------------------------------------------------------- timer
\* CountDown::start as AsyncTimer::delay_for calls it: stop, load the reload
\* value, reset the counter with URS set (no update flag), start.  The
\* update flag is left as it is.
DelayFor(n) ==
    /\ orphan' = [orphan EXCEPT !["TIM2"] = Drop("TIM2")]
    /\ app = "TIM2" /\ pc = "idle" /\ TaskCanRun
    /\ gen["TIM2"] < MaxGen
    /\ arr' = n /\ cnt' = 0 /\ UNCHANGED uif
    /\ gen' = [gen EXCEPT !["TIM2"] = @ + 1]
    /\ last' = [last EXCEPT !["TIM2"] = "none"]
    /\ done' = [done EXCEPT !["TIM2"] = FALSE]
    /\ afterDone' = [afterDone EXCEPT !["TIM2"] = "none"]
    /\ elapsed' = 0 /\ nReady' = 0
    /\ UNCHANGED <<app, isrRuns, nvicVars, pc, cur, fatal, obsVars, txVars, rxVars, extiVars>>

\* One tick of the (periodic) counter; the update event sets UIF and, the
\* update interrupt being enabled by listen(Event::Update), raises the line.
Tick ==
    /\ app = "TIM2"
    /\ elapsed' = IF elapsed < MaxCount THEN elapsed + 1 ELSE elapsed
    /\ IF cnt + 1 >= arr
       THEN /\ cnt' = 0 /\ uif' = TRUE
            /\ pend' = [pend EXCEPT !["TIM2"] = TRUE]
            /\ evInCycle' = [evInCycle EXCEPT !["TIM2"] = TRUE]
       ELSE /\ cnt' = cnt + 1
            /\ UNCHANGED <<uif, pend, evInCycle>>
    /\ UNCHANGED <<app, isrRuns, orphan, masked, WAKER, taskVars, woken, resumes, isrFlag,
                   fired, evAtUnmask, arr, nReady, txVars, rxVars, extiVars>>

\* Delay::poll: CountDown::wait returns Ok and clears UIF when it is set,
\* WouldBlock otherwise.
DelayPoll ==
    /\ app = "TIM2" /\ pc = "idle" /\ TaskCanRun
    /\ gen["TIM2"] > 0
    /\ IF uif
       THEN /\ uif' = FALSE
            /\ last' = [last EXCEPT !["TIM2"] = "ready"]
            /\ done' = [done EXCEPT !["TIM2"] = TRUE]
            /\ nReady' = IF nReady < 2 THEN nReady + 1 ELSE nReady
            /\ afterDone' = [afterDone EXCEPT !["TIM2"] =
                               IF done["TIM2"] THEN "ready" ELSE @]
            /\ UNCHANGED <<pc, cur>>
       ELSE /\ StartInstall("TIM2")
            /\ last' = [last EXCEPT !["TIM2"] = "polling"]
            /\ afterDone' = [afterDone EXCEPT !["TIM2"] =
                               IF done["TIM2"] THEN "pending" ELSE @]
            /\ UNCHANGED <<uif, done, nReady>>
    /\ UNCHANGED <<app, isrRuns, orphan, nvicVars, fatal, gen, obsVars, cnt, arr, elapsed,
                   txVars, rxVars, extiVars>>

\* ------------------------------------------------------- transmit sink
SinkPolls == {"poll_ready", "poll_flush", "poll_close"}
TX == "DMA1_CHANNEL4"
RX == "DMA1_CHANNEL5"
Note(ops, name, res) ==
    IF Len(ops) < 2 THEN Append(ops, [name |-> name, res |-> res]) ELSE ops
NoOp == [name |-> "none", res |-> "none", n |-> 0]
Obs(o, name, res) == [name |-> name, res |-> res, n |-> 1 - o.n]

\* TxSinkX::new: listen(Event::TransferComplete), state Ready.  The first
\* sink is built in Init; this one is built from what release() returned.
TxNew ==
    /\ app = TX /\ pc = "idle" /\ TaskCanRun
    /\ sink = "Released"
    /\ sink' = "Ready"
    /\ rebuilt' = TRUE
    /\ sinkOps' = <<>>
    /\ sinkObs' = NoOp
    /\ UNCHANGED <<app, isrRuns, orphan, nvicVars, taskVars, obsVars, timVars, rxVars, extiVars,
                   transfer, txbuf, txEn, tcif, wire, submitted, started,
                   releasing, releasedFrom>>

TxStartSend_NoCheck(item) ==
    /\ app = TX /\ pc = "idle" /\ TaskCanRun
    /\ sink \in {"Ready", "Sending"} /\ ~releasing
    /\ Len(submitted) < MaxSends
    /\ submitted' = Append(submitted, item)
    /\ txbuf' = item
    /\ txEn' = TRUE
    /\ started' = started + 1
    /\ transfer' = "Some"
    /\ sink' = "Sending"
    /\ gen' = [gen EXCEPT ![TX] = @ + 1]
    /\ last' = [last EXCEPT ![TX] = "none"]
    /\ done' = [done EXCEPT ![TX] = FALSE]
    /\ afterDone' = [afterDone EXCEPT ![TX] = "none"]
    /\ sinkOps' = Note(sinkOps, "start_send", "ok")
    /\ sinkObs' = Obs(sinkObs, "start_send", "ok")
    /\ UNCHANGED <<app, isrRuns, orphan, nvicVars, pc, cur, fatal, obsVars, timVars, rxVars,
                   extiVars, tcif, wire, releasing, releasedFrom, rebuilt>>

TxStartSend_KeepBuffer(item) ==
    /\ app = TX /\ pc = "idle" /\ TaskCanRun
    /\ sink \in {"Ready", "Sending"} /\ ~releasing
    /\ Len(submitted) < MaxSends
    /\ submitted' = Append(submitted, item)
    /\ IF sink = "Ready"
       THEN /\ txEn' = TRUE
            /\ started' = started + 1
            /\ transfer' = "Some"
            /\ sink' = "Sending"
            /\ gen' = [gen EXCEPT ![TX] = @ + 1]
            /\ last' = [last EXCEPT ![TX] = "none"]
            /\ done' = [done EXCEPT ![TX] = FALSE]
            /\ afterDone' = [afterDone EXCEPT ![TX] = "none"]
            /\ sinkOps' = Note(sinkOps, "start_send", "ok")
            /\ sinkObs' = Obs(sinkObs, "start_send", "ok")
            /\ UNCHANGED <<fatal, txbuf>>
       ELSE /\ fatal' = "started sending before polled ready"
            /\ sink' = "None"
            /\ sinkOps' = Note(sinkOps, "start_send", "fatal")
            /\ sinkObs' = Obs(sinkObs, "start_send", "fatal")
            /\ UNCHANGED <<txbuf, txEn, started, transfer, gen, last, done,
                           afterDone>>
    /\ UNCHANGED <<app, isrRuns, orphan, nvicVars, pc, cur, obsVars, timVars, rxVars, extiVars,
                   tcif, wire, releasing, releasedFrom, rebuilt>>

\* TxSink::start_send: take the state; Ready: store the item in the buffer,
\* tx.write(buf) starts the transfer, state Sending; Sending: panic.
TxStartSend(item) ==
    /\ app = TX /\ pc = "idle" /\ TaskCanRun
    /\ sink \in {"Ready", "Sending"} /\ ~releasing
    /\ Len(submitted) < MaxSends
    /\ submitted' = Append(submitted, item)
    /\ IF sink = "Ready"
       THEN /\ txbuf' = item
            /\ txEn' = TRUE
            /\ started' = started + 1
            /\ transfer' = "Some"
            /\ sink' = "Sending"
            /\ gen' = [gen EXCEPT ![TX] = @ + 1]
            /\ last' = [last EXCEPT ![TX] = "none"]
            /\ done' = [done EXCEPT ![TX] = FALSE]
            /\ afterDone' = [afterDone EXCEPT ![TX] = "none"]
            /\ sinkOps' = Note(sinkOps, "start_send", "ok")
            /\ sinkObs' = Obs(sinkObs, "start_send", "ok")
            /\ UNCHANGED fatal
       ELSE /\ fatal' = "started sending before polled ready"
            /\ sink' = "None"
            /\ sinkOps' = Note(sinkOps, "start_send", "fatal")
            /\ sinkObs' = Obs(sinkObs, "start_send", "fatal")
            /\ UNCHANGED <<txbuf, txEn, started, transfer, gen, last, done,
                           afterDone>>
    /\ UNCHANGED <<app, isrRuns, orphan, nvicVars, pc, cur, obsVars, timVars, rxVars, extiVars,
                   tcif, wire, releasing, releasedFrom, rebuilt>>

\* The transmit DMA finishes the transfer: the buffer is on the wire, TCIF is
\* set and, TransferComplete being listened to, the request line rises.
TxDmaComplete ==
    /\ app = TX
    /\ txEn /\ ~tcif
    /\ tcif' = TRUE
    /\ wire' = Append(wire, txbuf)
    /\ pend' = [pend EXCEPT ![TX] = TRUE]
    /\ evInCycle' = [evInCycle EXCEPT ![TX] = TRUE]
    /\ UNCHANGED <<app, isrRuns, orphan, masked, WAKER, taskVars, woken, resumes, isrFlag,
                   fired, evAtUnmask, timVars, rxVars, extiVars, sink, transfer, txbuf, txEn,
                   submitted, started, releasing, releasedFrom, rebuilt,
                   sinkOps, sinkObs>>

\* Transfer::is_done: the transfer-complete flag is set.
IsDone_Always(flag) == TRUE
IsDone(flag) == flag

\* State of the sink after release()'s match on the state left by close().
AfterClose(rel, st) == IF rel /\ st = "Ready" THEN "Released" ELSE st

\* TxSink::poll_flush, which poll_ready and poll_close call, with
\* TransferFuture::poll inlined.  rel: the poll is made by release().
\* Transfer::is_done reads TCIF; Transfer::wait clears the channel's flags
\* and disables the channel.
PollFlush(name, rel) ==
    /\ app = TX /\ pc = "idle" /\ TaskCanRun
    /\ sink \in {"Ready", "Sending"}
    /\ releasing => rel
    /\ releasedFrom' = IF rel /\ ~releasing THEN sink ELSE releasedFrom
    /\ IF sink = "Ready"
       THEN /\ sink' = AfterClose(rel, "Ready")
            /\ releasing' = FALSE
            /\ sinkOps' = Note(sinkOps, name, "ready")
            /\ sinkObs' = Obs(sinkObs, name, "ready")
            /\ UNCHANGED <<pc, cur, fatal, last, done, afterDone, transfer,
                           txEn, tcif>>
       ELSE IF transfer = "None"
       THEN /\ fatal' = "polled after completion"
            /\ afterDone' = [afterDone EXCEPT ![TX] = "fatal"]
            /\ sinkOps' = Note(sinkOps, name, "fatal")
            /\ sinkObs' = Obs(sinkObs, name, "fatal")
            /\ UNCHANGED <<pc, cur, last, done, transfer, txEn, tcif, sink,
                           releasing>>
       ELSE IF IsDone(tcif)
       THEN /\ tcif' = FALSE /\ txEn' = FALSE
            /\ transfer' = "None"
            /\ sink' = AfterClose(rel, "Ready")
            /\ releasing' = FALSE
            /\ last' = [last EXCEPT ![TX] = "ready"]
            /\ done' = [done EXCEPT ![TX] = TRUE]
            /\ sinkOps' = Note(sinkOps, name, "ready")
            /\ sinkObs' = Obs(sinkObs, name, "ready")
            /\ UNCHANGED <<pc, cur, fatal, afterDone>>
       ELSE /\ StartInstall(TX)
            /\ last' = [last EXCEPT ![TX] = "polling"]
            /\ releasing' = rel
            /\ sinkOps' = Note(sinkOps, name, "pending")
            /\ sinkObs' = Obs(sinkObs, name, "pending")
            /\ UNCHANGED <<fatal, done, afterDone, transfer, txEn, tcif, sink>>
    /\ UNCHANGED <<app, isrRuns, orphan, nvicVars, gen, obsVars, timVars, rxVars, extiVars, txbuf,
                   wire, submitted, started, rebuilt>>

TxPoll_ReadyUnchecked(name) ==
    IF name = "poll_ready"
    THEN /\ app = TX /\ pc = "idle" /\ TaskCanRun
         /\ sink \in {"Ready", "Sending"} /\ ~releasing
         /\ sinkOps' = Note(sinkOps, name, "ready")
         /\ sinkObs' = Obs(sinkObs, name, "ready")
         /\ UNCHANGED <<app, isrRuns, orphan, nvicVars, taskVars, obsVars, timVars, rxVars,
                        extiVars, sink, transfer, txbuf, txEn, tcif, wire,
                        submitted, started, releasing, releasedFrom, rebuilt>>
    ELSE PollFlush(name, FALSE)
\* TxSink::poll_ready, poll_flush, poll_close: the first and the last call
\* poll_flush.
TxPoll(name) == PollFlush(name, FALSE)

TxRelease_NoClose ==
    /\ app = TX /\ pc = "idle" /\ TaskCanRun
    /\ sink \in {"Ready", "Sending"}
    /\ sink' = "Released"
    /\ releasedFrom' = sink
    /\ UNCHANGED <<app, isrRuns, orphan, nvicVars, taskVars, obsVars, timVars, rxVars, extiVars,
                   transfer, txbuf, txEn, tcif, wire, submitted, started,
                   releasing, rebuilt, sinkOps, sinkObs>>

\* TxSink::release: close().await, then return the Ready state's parts.
TxRelease == PollFlush("poll_close", TRUE)

\* ------------------------------------------------------- receive stream
Halves == {"First", "Second"}
Other(h) == IF h = "First" THEN "Second" ELSE "First"

\* The circular receive DMA completes the half it is writing: HTIF after
\* the first half, TCIF after the second; both events are listened to.
RxHalfComplete ==
    /\ app = RX
    /\ rxEn /\ Len(filled) < MaxHalves
    /\ rxbuf' = [rxbuf EXCEPT ![rxPos] = Len(filled) + 1]
    /\ filled' = Append(filled, [half |-> rxPos, data |-> Len(filled) + 1])
    \* overrun: the DMA moves into a half that is undelivered or being read
    /\ overrun' = (overrun \/ Len(filled) > Len(delivered) \/ pc = "peek")
    /\ rxPos' = Other(rxPos)
    /\ IF rxPos = "First"
       THEN rxHtif' = TRUE /\ UNCHANGED rxTcif
       ELSE rxTcif' = TRUE /\ UNCHANGED rxHtif
    /\ pend' = [pend EXCEPT ![RX] = TRUE]
    /\ evInCycle' = [evInCycle EXCEPT ![RX] = TRUE]
    /\ UNCHANGED <<app, isrRuns, orphan, masked, WAKER, taskVars, woken, resumes, isrFlag,
                   fired, evAtUnmask, timVars, txVars, extiVars, stream, rxEn, readable_half,
                   last_read_half, peeked, delivered, rxErrs, restarted>>

\* CircBuffer::readable_half: the half to read next, given the flags.
ReadableHalf(rh, ht, tc) ==
    IF rh = "First" THEN (IF tc THEN "Second" ELSE rh)
                    ELSE (IF ht THEN "First" ELSE rh)

\* The closure RxStream::poll_next passes to CircBuffer::peek.
PeekClosure_NoCompare(buf, half, marker) ==
    [some |-> TRUE, data |-> buf, half |-> half]

PeekClosure(buf, half, marker) ==
    IF half = marker THEN [some |-> FALSE, data |-> 0, half |-> half]
                     ELSE [some |-> TRUE, data |-> buf, half |-> half]

\* The match of RxStream::poll_next on what peek returned: an error is an
\* error item, Some a data item, None pending.  No arm ends the stream.
PollNextResult_EndOnError(err, some) ==
    IF err THEN "end" ELSE IF some THEN "item" ELSE "pending"

PollNextResult(err, some) ==
    IF err THEN "error" ELSE IF some THEN "item" ELSE "pending"

\* FusedStream::is_terminated
is_terminated(result) == FALSE

\* RxStream::poll_next up to the closure call inside CircBuffer::peek:
\* readable_half() fails with Overrun when both flags are set, else clears
\* the flag of the half that became readable; the closure clones the half.
RxPollNext ==
    /\ app = RX /\ pc = "idle" /\ TaskCanRun
    /\ stream = "Active"
    /\ IF rxHtif /\ rxTcif
       THEN /\ rxErrs' = IF rxErrs < 2 THEN rxErrs + 1 ELSE rxErrs
            /\ last' = [last EXCEPT ![RX] = PollNextResult(TRUE, FALSE)]
            /\ UNCHANGED <<pc, peeked, readable_half, rxHtif, rxTcif>>
       ELSE LET h == ReadableHalf(readable_half, rxHtif, rxTcif) IN
            /\ readable_half' = h
            /\ rxTcif' = IF readable_half = "First" THEN FALSE ELSE rxTcif
            /\ rxHtif' = IF readable_half = "Second" THEN FALSE ELSE rxHtif
            /\ peeked' = PeekClosure(rxbuf[h], h, last_read_half)
            /\ pc' = "peek"
            /\ last' = [last EXCEPT ![RX] = "polling"]
            /\ UNCHANGED rxErrs
    /\ UNCHANGED <<app, isrRuns, orphan, nvicVars, cur, fatal, gen, done, afterDone, obsVars,
                   timVars, txVars, extiVars, stream, rxEn, rxPos, rxbuf,
                   last_read_half, filled, delivered, overrun, restarted>>

RxPeekCheck_MarkOnError ==
    /\ pc = "peek" /\ TaskCanRun
    /\ LET err == (peeked.half = "First" /\ rxTcif)
                       \/ (peeked.half = "Second" /\ rxHtif)
           res == PollNextResult(err, peeked.some)
       IN  IF res = "pending"
           THEN /\ StartInstall(RX)
                /\ UNCHANGED <<last, last_read_half, delivered, rxErrs>>
           ELSE IF res = "item"
           THEN /\ last_read_half' = peeked.half
                /\ delivered' = Append(delivered, [half |-> peeked.half,
                                                   data |-> peeked.data])
                /\ last' = [last EXCEPT ![RX] = res]
                /\ pc' = "idle"
                /\ UNCHANGED <<cur, rxErrs>>
           ELSE /\ rxErrs' = IF rxErrs < 2 THEN rxErrs + 1 ELSE rxErrs
                /\ last' = [last EXCEPT ![RX] = res]
                /\ pc' = "idle"
                /\ last_read_half' = peeked.half
                /\ UNCHANGED <<cur, delivered>>
    /\ UNCHANGED <<app, isrRuns, orphan, nvicVars, fatal, gen, done, afterDone,
                   obsVars, timVars, txVars, extiVars, stream, rxEn, rxHtif,
                   rxTcif, rxPos, rxbuf, readable_half, peeked, filled,
                   overrun, restarted>>

\* The rest of peek and of poll_next: the overrun check after the closure,
\* then the match on the result.
RxPeekCheck ==
    /\ pc = "peek" /\ TaskCanRun
    /\ LET err == (peeked.half = "First" /\ rxTcif)
                       \/ (peeked.half = "Second" /\ rxHtif)
           res == PollNextResult(err, peeked.some)
       IN  IF res = "pending"
           THEN /\ StartInstall(RX)
                /\ UNCHANGED <<last, last_read_half, delivered, rxErrs>>
           ELSE IF res = "item"
           THEN /\ last_read_half' = peeked.half
                /\ delivered' = Append(delivered, [half |-> peeked.half,
                                                   data |-> peeked.data])
                /\ last' = [last EXCEPT ![RX] = res]
                /\ pc' = "idle"
                /\ UNCHANGED <<cur, rxErrs>>
           ELSE /\ rxErrs' = IF rxErrs < 2 THEN rxErrs + 1 ELSE rxErrs
                /\ last' = [last EXCEPT ![RX] = res]
                /\ pc' = "idle"
                /\ UNCHANGED <<cur, last_read_half, delivered>>
    /\ UNCHANGED <<app, isrRuns, orphan, nvicVars, fatal, gen, done, afterDone, obsVars,
                   timVars, txVars, extiVars, stream, rxEn, rxHtif, rxTcif, rxPos,
                   rxbuf, readable_half, peeked, filled, overrun, restarted>>

\* RxStreamX::release: CircBuffer::stop clears the channel's flags and
\* disables the channel.
RxRelease ==
    /\ app = RX /\ pc = "idle" /\ TaskCanRun
    /\ stream = "Active"
    /\ stream' = "Released"
    /\ rxEn' = FALSE /\ rxHtif' = FALSE /\ rxTcif' = FALSE
    /\ UNCHANGED <<app, isrRuns, orphan, nvicVars, taskVars, obsVars, timVars, txVars, extiVars,
                   rxPos, rxbuf, readable_half, last_read_half, peeked,
                   filled, delivered, rxErrs, overrun, restarted>>

\* RxStreamX::new on the released parts: listen to both events, circ_read
\* (CircBuffer::new starts with readable_half Second), marker Second.
RxNew ==
    /\ orphan' = [orphan EXCEPT ![RX] = Drop(RX)]
    /\ app = RX /\ pc = "idle" /\ TaskCanRun
    /\ stream = "Released" /\ gen[RX] < MaxGen
    /\ stream' = "Active"
    /\ rxEn' = TRUE /\ rxPos' = "First"
    /\ readable_half' = "Second"
    /\ last_read_half' = "Second"
    /\ gen' = [gen EXCEPT ![RX] = @ + 1]
    /\ last' = [last EXCEPT ![RX] = "none"]
    /\ filled' = <<>> /\ delivered' = <<>> /\ rxErrs' = 0
    /\ overrun' = FALSE
    /\ restarted' = TRUE
    /\ UNCHANGED <<app, isrRuns, nvicVars, pc, cur, fatal, done, afterDone, obsVars,
                   timVars, txVars, extiVars, rxHtif, rxTcif, rxbuf, peeked>>

\* ------------------------------------------------------------ pin edges
\* An edge on a pin: its EXTI pending bit is set (it stays set if it was);
\* the pin's interrupt being enabled by AsyncPin::new, the shared request
\* line rises.
Edge(p) ==
    /\ app = "EXTI9_5"
    /\ edges[p] < MaxEdges
    /\ pr' = [pr EXCEPT ![p] = TRUE]
    /\ edges' = [edges EXCEPT ![p] = @ + 1]
    /\ latched' = [latched EXCEPT ![p] = IF pr[p] THEN @ ELSE @ + 1]
    /\ UNCHANGED readys
    /\ pend' = [pend EXCEPT !["EXTI9_5"] = TRUE]
    /\ evInCycle' = [evInCycle EXCEPT !["EXTI9_5"] = TRUE]
    /\ UNCHANGED <<app, isrRuns, orphan, masked, WAKER, taskVars, woken, resumes, isrFlag,
                   fired, evAtUnmask, timVars, txVars, rxVars>>

\* AsyncPin::trigger: a new AsyncTrigger borrowing the pin.
Trigger(p) ==
    /\ orphan' = [orphan EXCEPT ![p] = Drop(p)]
    /\ app = "EXTI9_5" /\ pc = "idle" /\ TaskCanRun
    /\ gen[p] < MaxGen
    /\ gen' = [gen EXCEPT ![p] = @ + 1]
    /\ last' = [last EXCEPT ![p] = "none"]
    /\ done' = [done EXCEPT ![p] = FALSE]
    /\ afterDone' = [afterDone EXCEPT ![p] = "none"]
    /\ UNCHANGED <<app, isrRuns, nvicVars, pc, cur, fatal, obsVars, devVars>>

\* ExtiPin::check_interrupt on the pin the AsyncTrigger borrows.
check_interrupt_AnyPin(p) == \E q \in Pins : pr[q]
check_interrupt(p) == pr[p]

\* ExtiPin::clear_interrupt_pending_bit
clear_interrupt_pending_bit_Skip(r, p) == r
clear_interrupt_pending_bit(r, p) == [r EXCEPT ![p] = FALSE]

\* AsyncTrigger::poll
TriggerPoll(p) ==
    /\ app = "EXTI9_5" /\ pc = "idle" /\ TaskCanRun
    /\ gen[p] > 0
    /\ IF ~check_interrupt(p)
       THEN /\ StartInstall(p)
            /\ last' = [last EXCEPT ![p] = "polling"]
            /\ afterDone' = [afterDone EXCEPT ![p] =
                               IF done[p] THEN "pending" ELSE @]
            /\ UNCHANGED <<pr, done, readys>>
       ELSE /\ pr' = clear_interrupt_pending_bit(pr, p)
            /\ readys' = [readys EXCEPT ![p] = IF @ <= MaxEdges THEN @ + 1
                                                               ELSE @]
            /\ last' = [last EXCEPT ![p] = "ready"]
            /\ done' = [done EXCEPT ![p] = TRUE]
            /\ afterDone' = [afterDone EXCEPT ![p] =
                               IF done[p] THEN "ready" ELSE @]
            /\ UNCHANGED <<pc, cur>>
    /\ UNCHANGED <<app, isrRuns, orphan, nvicVars, fatal, gen, obsVars, timVars, txVars,
                   rxVars, edges, latched>>

\* Handler of the shared vector (multi_interrupt!): wake every occupied
\* slot, then mask unconditionally.
MultiMask_Skip(m, v) == m
MultiMask(m, v) == [m EXCEPT ![v] = TRUE]

MultiInterrupt ==
    /\ isrRuns' = IF isrRuns <= MaxEdges THEN isrRuns + 1 ELSE isrRuns
    /\ orphan' = StaleWake(Pins)
    /\ IsrRunnable("EXTI9_5")
    /\ isrFlag' = [isrFlag EXCEPT !["EXTI9_5"] = Line("EXTI9_5")]
    /\ woken' = [s \in Sources |->
                   IF s \in Pins /\ WAKER[s] # WAKER_NONE THEN WAKER[s]
                   ELSE woken[s]]
    /\ resumes' = [resumes EXCEPT !["EXTI9_5"] =
                     IF (\E p \in Pins : WAKER[p] # WAKER_NONE) /\ @ < 2
                     THEN @ + 1 ELSE @]
    /\ masked' = MultiMask(masked, "EXTI9_5")
    /\ fired' = [fired EXCEPT !["EXTI9_5"] = TRUE]
    /\ pend' = [pend EXCEPT !["EXTI9_5"] = Line("EXTI9_5")]
    /\ UNCHANGED <<app, WAKER, taskVars, evInCycle, evAtUnmask, devVars>>

\* ------------------------------------------------------------ specification
Init ==
    /\ app \in Vectors
    /\ masked = ResetMask
    /\ pend = [v \in Vectors |-> FALSE]
    /\ WAKER = [s \in Sources |-> WAKER_NONE]
    /\ pc = "idle"
    /\ cur = [src |-> "TIM2", waker |-> WAKER_NONE]
    /\ fatal = "none"
    /\ gen = [s \in Sources |-> IF s = RX THEN 1 ELSE 0]
    /\ last = [s \in Sources |-> "none"]
    /\ done = [s \in Sources |-> FALSE]
    /\ afterDone = [s \in Sources |-> "none"]
    /\ woken = [s \in Sources |-> WAKER_NONE]
    /\ resumes = [v \in Vectors |-> 0]
    /\ evInCycle = [v \in Vectors |-> FALSE]
    /\ isrFlag = [v \in Vectors |-> FALSE]
    /\ fired = [v \in Vectors |-> FALSE]
    /\ evAtUnmask = [s \in Sources |-> FALSE]
    \* From<Timer>: start_count_down(1.hz()) then listen(Event::Update)
    /\ uif = FALSE /\ cnt = 0 /\ arr = InitPeriod
    /\ elapsed = 0 /\ nReady = 0
    \* TxSinkX::new
    /\ sink = "Ready" /\ transfer = "None" /\ txbuf = 0
    /\ txEn = FALSE /\ tcif = FALSE
    /\ wire = <<>> /\ submitted = <<>> /\ started = 0
    /\ releasing = FALSE /\ releasedFrom = "none"
    /\ rebuilt = FALSE /\ sinkOps = <<>> /\ sinkObs = NoOp
    \* RxStreamX::new
    /\ stream = "Active" /\ rxEn = TRUE
    /\ rxHtif = FALSE /\ rxTcif = FALSE /\ rxPos = "First"
    /\ rxbuf = [h \in Halves |-> 0]
    /\ readable_half = "Second" /\ last_read_half = "Second"
    /\ peeked = [some |-> FALSE, data |-> 0, half |-> "Second"]
    /\ filled = <<>> /\ delivered = <<>> /\ rxErrs = 0
    /\ overrun = FALSE /\ restarted = FALSE
    \* AsyncPin::new
    /\ pr = [p \in Pins |-> FALSE]
    /\ edges = [p \in Pins |-> 0]
    /\ latched = [p \in Pins |-> 0]
    /\ readys = [p \in Pins |-> 0]
    /\ orphan = [s \in Sources |-> NoOrphan]
    /\ isrRuns = 0

Next ==
    \/ InstallMask
    \/ InstallStore
    \/ InstallUnpend
    \/ InstallUnmask
    \/ \E v \in SingleVectors : WakerInterrupt(v)
    \/ \E n \in 1..MaxCount : DelayFor(n)
    \/ Tick
    \/ DelayPoll
    \/ TxNew
    \/ \E item \in Items : TxStartSend(item)
    \/ TxDmaComplete
    \/ \E name \in SinkPolls : TxPoll(name)
    \/ TxRelease
    \/ RxHalfComplete
    \/ RxPollNext
    \/ RxPeekCheck
    \/ RxRelease
    \/ RxNew
    \/ \E p \in Pins : Edge(p)
    \/ \E p \in Pins : Trigger(p)
    \/ \E p \in Pins : TriggerPoll(p)
    \/ MultiInterrupt

Spec == Init /\ [][Next]_vars

\* ------------------------------------------------------------------ claims
InCritical(v) == pc \in {"store", "unpend", "unmask"} /\ VecOf(cur.src) = v
Parked(s) == last[s] = "pending" /\ pc = "idle"
IsPrefix(a, b) == Len(a) <= Len(b) /\ \A i \in 1..Len(a) : a[i] = b[i]

\* C1: no lost wakeup.  A future whose poll returned pending and whose
\* hardware event has happened (in particular before the unmask step of
\* that poll's install) is not left behind: either the handler is about to
\* run, or it has resumed the continuation that poll installed.
C1_NoLostWakeup ==
    \A s \in Sources :
        (Parked(s) /\ EventFlag(s) /\ ~IsrRunnable(VecOf(s)))
            => (woken[s] # WAKER_NONE /\ woken[s] = gen[s])

\* C1 witness: the event had happened by the unmask step of the install,
\* the poll returned pending, and the handler resumed that continuation.
C1_Witness ==
    \E s \in Sources :
        Parked(s) /\ evAtUnmask[s] /\ EventFlag(s) /\ woken[s] = gen[s]

\* C2: exactly one resume per install cycle of a single-slot vector in which
\* the hardware event happened at or after the mask step: never two, and,
\* outside the critical section and once the handler is no longer about to
\* run, not zero.
C2_ExactlyOneResume ==
    \A v \in SingleVectors :
        /\ resumes[v] <= 1
        /\ (WAKER[v] # WAKER_NONE /\ evInCycle[v] /\ ~InCritical(v)
              /\ ~IsrRunnable(v)) => resumes[v] = 1

\* C2 witness: a cycle whose event happened inside the critical section and
\* whose continuation was resumed once.
C2_Witness ==
    \E v \in SingleVectors :
        evInCycle[v] /\ evAtUnmask[v] /\ resumes[v] = 1 /\ pc = "idle"

\* C3 (as claimed): a Delay returns ready at most once and only when the
\* countdown started by its delay_for call has expired.
C3_DelayNeverEarly ==
    /\ nReady <= 1
    /\ (gen["TIM2"] > 0 /\ last["TIM2"] = "ready") => elapsed >= arr

\* C4 (as claimed): a poll made after a future returned ready is fatal: it
\* returns neither pending nor ready and installs nothing.
C4_PollAfterCompletionFatal ==
    \A s \in Sources : afterDone[s] \in {"none", "fatal"}

\* C5: start_send in the Sending state panics with the "already sending"
\* message and starts no hardware transfer: the transfer count, the channel
\* and the buffer are left as they were.
C5_SendWhileSendingFatal ==
    [][(sink = "Sending" /\ submitted' # submitted)
         => /\ fatal' = "started sending before polled ready"
            /\ started' = started /\ txEn' = txEn /\ tcif' = tcif
            /\ txbuf' = txbuf /\ wire' = wire]_vars

\* C5 witness: the program has panicked in start_send.
C5_Witness ==
    /\ fatal = "started sending before polled ready"
    /\ started = Len(submitted) - 1

\* C6: buffers sent one after another, each flushed, give as many hardware
\* transfers as buffers, carrying the buffers' contents in submission order.
C6_SinkOrderAndCount ==
    fatal = "none" =>
        /\ started = Len(submitted)
        /\ IsPrefix(wire, submitted)
        /\ Len(submitted) - Len(wire) <= 1
        /\ (sink \in {"Ready", "Released"} => wire = submitted)

\* C6 witness: three buffers, not all equal, sent and flushed.
C6_Witness ==
    /\ fatal = "none" /\ sink = "Ready"
    /\ Len(wire) = 3 /\ wire = submitted /\ wire[1] # wire[2]

\* C7: without overrun the stream delivers each completed half once, in
\* completion order; the marker is the half delivered last and alternates.
C7_StreamInOrder ==
    ~overrun =>
        /\ IsPrefix(delivered, filled)
        /\ Len(filled) - Len(delivered) <= 1
        /\ rxErrs = 0
        /\ last_read_half = IF delivered = <<>> THEN "Second"
                            ELSE delivered[Len(delivered)].half
        /\ \A i \in 1..(Len(delivered) - 1) :
               delivered[i].half # delivered[i + 1].half
        /\ (stream = "Active" /\ Parked(RX) /\ ~rxHtif /\ ~rxTcif)
               => delivered = filled

\* C7 witness: halves First, Second, First completed and three items out.
C7_Witness ==
    /\ ~overrun /\ Len(delivered) = 3
    /\ delivered[1].half = "First" /\ delivered[3].half = "First"

\* C8: release returns only from the Ready state with no transfer in
\* flight; a sink rebuilt from the returned parts answers its first
\* poll_ready with ready and accepts its first start_send; a stream rebuilt
\* from the released parts starts armed with the marker on the second half.
C8_ReleaseRoundTrip ==
    /\ sink = "Released" => (~txEn /\ ~tcif /\ transfer = "None")
    /\ (rebuilt /\ Len(sinkOps) >= 1) =>
           /\ sinkOps[1].name = "poll_ready" => sinkOps[1].res = "ready"
           /\ sinkOps[1].name = "start_send" => sinkOps[1].res = "ok"
    /\ (rebuilt /\ Len(sinkOps) >= 2 /\ sinkOps[1].name = "poll_ready"
          /\ sinkOps[2].name = "start_send") => sinkOps[2].res = "ok"
    /\ (restarted /\ stream = "Active" /\ last[RX] = "none") =>
           /\ last_read_half = "Second" /\ readable_half = "Second"
           /\ filled = <<>> => (~rxHtif /\ ~rxTcif)

\* C8 witness: release was called while sending, and the rebuilt sink has
\* answered poll_ready and accepted a start_send.
C8_Witness ==
    /\ rebuilt /\ releasedFrom = "Sending"
    /\ Len(sinkOps) = 2 /\ sinkOps[1].name = "poll_ready"
    /\ sinkOps[2] = [name |-> "start_send", res |-> "ok"]
    /\ Len(submitted) >= 2

\* C9: after a handler run the vector is masked and stays so until the
\* unmask step of a later install, so the handler cannot run again before.
C9_OneShotVector ==
    \A v \in Vectors : fired[v] => (masked[v] /\ ~IsrRunnable(v))

\* C9 witness: a handler has run; its request line is still asserted, so
\* the vector is pending again, and it is masked.
C9_Witness ==
    \E v \in Vectors : fired[v] /\ pend[v] /\ masked[v]

\* C10: on a single-slot vector the handler resumes a continuation only in
\* a state where the hardware event has occurred.
C10_NoResumeBeforeEvent ==
    \A v \in SingleVectors :
        /\ (IsrRunnable(v) /\ WAKER[v] # WAKER_NONE) => Line(v)
        /\ woken[v] # WAKER_NONE => isrFlag[v]

\* C10 witness: a continuation whose event had not happened when it was
\* installed has been resumed.
C10_Witness ==
    \E v \in SingleVectors :
        woken[v] # WAKER_NONE /\ woken[v] = gen[v] /\ ~evAtUnmask[v]

\* C11: the stream is unbounded: every result of poll_next is pending, a
\* data item or an error item, never end-of-stream, whatever polls, items
\* and errors came before; is_terminated is false throughout.
C11_StreamNeverEnds ==
    /\ last[RX] \in {"none", "polling", "pending", "item", "error"}
    /\ ~is_terminated(last[RX])

\* C11 witness: after an error item and a data item, the stream is polled
\* again and returns pending.
C11_Witness ==
    rxErrs >= 1 /\ Len(delivered) >= 1 /\ Parked(RX) /\ stream = "Active"

\* C12 (as claimed): an error reported by the circular-buffer handle is
\* returned as an error item, and no data item is produced by any poll_next
\* after an error item.
C12_ErrorTerminates ==
    [][/\ rxErrs' > rxErrs => last'[RX] = "error"
       /\ rxErrs > 0 => Len(delivered') <= Len(delivered)]_vars

\* C13 (as claimed): trigger() resolves once per detected edge: every edge
\* the EXTI detects on a pin is either resolved by one ready result or
\* still flagged.
C13_OncePerEdge ==
    \A p \in Pins : edges[p] = readys[p] + (IF pr[p] THEN 1 ELSE 0)

\* C13 (amended): a ready poll clears the pin's pending flag, so no ready
\* result comes without a new edge, and every edge detected while the flag
\* was clear is either resolved by one ready result or still flagged; an
\* edge detected while the flag is set merges with the pending one.
C13_OncePerLatchedEdge ==
    \A p \in Pins :
        /\ latched[p] = readys[p] + (IF pr[p] THEN 1 ELSE 0)
        /\ readys[p] <= edges[p]

\* C13 witness: two edges on a pin, each resolved once.
C13_Witness ==
    \E p \in Pins : edges[p] = 2 /\ latched[p] = 2 /\ readys[p] = 2 /\ ~pr[p]

\* C14: spurious wakeups on the shared vector are harmless: an AsyncTrigger
\* poll returns ready only when its own pin's flag is set, and the re-poll
\* of a resumed future whose flag is not set installs its continuation
\* again and returns pending.
C14_SpuriousHarmless ==
    [][\A p \in Pins :
         /\ readys'[p] # readys[p] => pr[p]
         /\ (last[p] = "pending" /\ woken[p] = gen[p] /\ ~pr[p]
               /\ last'[p] # last[p] /\ gen'[p] = gen[p])
              => (last'[p] = "polling" /\ pc' = "mask"
                    /\ cur' = [src |-> p, waker |-> gen[p]])]_vars

\* C14 witness: a future resumed because of the other pin's edge is being
\* re-polled with its own flag unset and has started its install.
C14_Witness ==
    \E p \in Pins : \E q \in Pins \ {p} :
        /\ pc = "mask" /\ cur.src = p /\ woken[p] = gen[p]
        /\ ~pr[p] /\ pr[q] /\ isrFlag["EXTI9_5"]
\* C15: poll_ready and poll_close give the result and the state change of
\* poll_flush in every sink state: an idle sink answers ready at once, with no
\* install and no change; a Sending sink answers ready exactly when the
\* transfer-complete flag is set and otherwise stays Sending, pending, with an
\* install begun.  A start_send made directly after poll_ready answered
\* ready is never fatal.
C15_SinkReadiness ==
    [][sinkObs' # sinkObs =>
         /\ sinkObs'.name \in SinkPolls =>
              /\ sinkObs'.res = IF sink = "Ready" \/ tcif THEN "ready"
                                                          ELSE "pending"
              /\ sink = "Ready" =>
                    /\ pc' = "idle" /\ WAKER' = WAKER /\ masked' = masked
                    /\ sink' \in {"Ready", "Released"}
                    /\ UNCHANGED <<transfer, txEn, tcif, txbuf>>
              /\ (sink = "Sending" /\ tcif) =>
                    /\ sink' \in {"Ready", "Released"}
                    /\ transfer' = "None" /\ pc' = "idle"
              /\ (sink = "Sending" /\ ~tcif) =>
                    /\ sink' = "Sending" /\ transfer' = transfer
                    /\ pc' = "mask" /\ cur'.src = TX
              /\ sink' = "Released" => releasedFrom' = sink
         /\ (sinkObs'.name = "start_send" /\ sinkObs.name = "poll_ready"
               /\ sinkObs.res = "ready") =>
              (sinkObs'.res = "ok" /\ fatal' = "none")]_vars

\* Witness of C15: start_send has succeeded directly after a poll_ready that
\* answered ready on a sink that had been Sending (the transfer is on the
\* wire), and the new transfer is in flight.
C15_Witness ==
    /\ sinkObs.name = "start_send" /\ sinkObs.res = "ok"
    /\ Len(sinkOps) = 2 /\ sinkOps[2] = [name |-> "poll_ready", res |-> "ready"]
    /\ sinkOps[1] = [name |-> "start_send", res |-> "ok"]
    /\ started = 2 /\ Len(wire) = 1 /\ sink = "Sending"

\* C16: critical-section exclusion.  An install steps mask, store, unpend,
\* unmask in that order; its store is the only task write of a slot and is
\* made with the slot's vector masked; the vector stays masked from the mask
\* step to the unmask step, and no handler of that vector runs in between.
PcOrder ==
    {<<"idle", "mask">>, <<"mask", "store">>, <<"store", "unpend">>,
     <<"unpend", "unmask">>, <<"unmask", "idle">>,
     <<"idle", "peek">>, <<"peek", "mask">>, <<"peek", "idle">>}
C16_CriticalSection ==
    [][/\ pc' # pc => <<pc, pc'>> \in PcOrder
       /\ \A v \in Vectors : InCritical(v) => masked[v]
       /\ \A v \in Vectors : InCritical(v)' => masked'[v]
       /\ \A s \in Sources :
            (WAKER'[s] # WAKER[s] /\ WAKER'[s] # WAKER_NONE) =>
                /\ pc = "store" /\ pc' = "unpend" /\ cur.src = s
                /\ masked[VecOf(s)] /\ WAKER'[s] = cur.waker
       /\ (pc = "mask" /\ pc' = "store") =>
            (masked'[VecOf(cur.src)] /\ WAKER' = WAKER)
       /\ (pc = "unpend" /\ pc' = "unmask") =>
            (WAKER' = WAKER /\ masked' = masked
               /\ pend'[VecOf(cur.src)] = Line(VecOf(cur.src)))
       /\ (pc = "unmask" /\ pc' = "idle") =>
            (~masked'[VecOf(cur.src)] /\ WAKER' = WAKER)
       /\ \A v \in SingleVectors : WakerInterrupt(v) => ~InCritical(v)
       /\ MultiInterrupt => ~InCritical("EXTI9_5")]_vars

\* Witness of C16: the event of the source being installed has happened
\* inside the critical section: the vector is pending and masked, the slot
\* holds the new continuation, and the unmask step is next.
C16_Witness ==
    /\ pc = "unmask" /\ WAKER[cur.src] = cur.waker
    /\ pend[VecOf(cur.src)] /\ masked[VecOf(cur.src)]
    /\ evInCycle[VecOf(cur.src)]

\* C17: sink state transitions.  The sink leaves Ready for Sending only in a
\* start_send, which stores the item in the buffer and starts exactly one
\* transfer; it leaves Sending for Ready (or, in release, for Released) only
\* in a poll that found the transfer-complete flag set; a poll that finds
\* the flag clear leaves the sink Sending and returns pending.
C17_SinkTransitions ==
    [][/\ (sink = "Ready" /\ sink' = "Sending") =>
            /\ sinkObs' = Obs(sinkObs, "start_send", "ok")
            /\ submitted' = Append(submitted, txbuf')
            /\ started' = started + 1
            /\ ~txEn /\ txEn' /\ ~tcif' /\ transfer' = "Some"
       /\ (sink = "Sending" /\ sink' \in {"Ready", "Released"}) =>
            /\ sinkObs'.name \in SinkPolls /\ sinkObs'.res = "ready"
            /\ sinkObs'.n # sinkObs.n
            /\ tcif /\ started' = started
       /\ (sink' # sink /\ sink' \in {"Ready", "Sending"}) =>
            (sink \in {"Ready", "Sending"} \/ (sink = "Released" /\ rebuilt'))
       /\ (sink = "Sending" /\ ~tcif /\ sinkObs'.n # sinkObs.n
              /\ sinkObs'.name \in SinkPolls) =>
            (sink' = "Sending" /\ sinkObs'.res = "pending"
               /\ started' = started)]_vars

\* Witness of C17: the sink has gone Ready, Sending, Ready: the second item
\* was accepted, a poll found the flag clear and parked the task, the
\* handler resumed it, and the poll made then found the flag set.
C17_Witness ==
    /\ sink = "Ready" /\ started = 2 /\ Len(wire) = 2
    /\ sinkObs.name \in SinkPolls /\ sinkObs.res = "ready"
    /\ woken[TX] = gen[TX] /\ done[TX] /\ ~tcif

\* ------------------------------------------------ the sink under fairness
\* The transmit sink alone, with a task that is parked while its poll is
\* pending (it calls start_send only when it is not parked), hardware that
\* finishes a started transfer, a processor that enters a pending unmasked
\* handler and runs the install of a poll to its end, and a scheduler that
\* polls a resumed task again.
\* Progress does not depend on the bytes sent: every item is the same one.
LiveItem == CHOOSE item \in Items : TRUE
TxInit == Init /\ app = TX
RePoll ==
    /\ woken[TX] = gen[TX] /\ last[TX] = "pending"
    /\ (\E name \in SinkPolls : TxPoll(name)) \/ TxRelease
TxNext ==
    \/ InstallMask
    \/ InstallStore
    \/ InstallUnpend
    \/ InstallUnmask
    \/ WakerInterrupt(TX)
    \/ TxNew
    \/ last[TX] # "pending" /\ TxStartSend(LiveItem)
    \/ TxDmaComplete
    \/ \E name \in SinkPolls : TxPoll(name)
    \/ TxRelease
TxFair ==
    /\ WF_vars(TxDmaComplete)
    /\ WF_vars(WakerInterrupt(TX))
    /\ WF_vars(InstallMask) /\ WF_vars(InstallStore)
    /\ WF_vars(InstallUnpend) /\ WF_vars(InstallUnmask)
    /\ WF_vars(RePoll)
TxLive == TxInit /\ [][TxNext]_vars /\ TxFair

\* C18: flush eventually completes.  Under TxLive, a sink that is Sending
\* and whose task has polled it (the poll is installing or has returned
\* pending) is eventually Ready again (Released, in release) with ready as
\* the result of the latest poll: the task is not parked forever.
C18_FlushCompletes ==
    (sink = "Sending" /\ last[TX] \in {"polling", "pending"})
        ~> (sink \in {"Ready", "Released"} /\ sinkObs.name \in SinkPolls
              /\ sinkObs.res = "ready")

\* Witness of C18: the task was parked on the Sending sink, the handler has
\* resumed it, and the poll made then has returned ready.
C18_Witness ==
    /\ sink = "Ready" /\ sinkObs.name = "poll_flush" /\ sinkObs.res = "ready"
    /\ woken[TX] = gen[TX] /\ masked[TX] /\ done[TX]
    /\ Len(wire) = started /\ started >= 1

\* C19 as stated: whenever the store step overwrites a continuation that is
\* in the slot, the handler has resumed that continuation since it was
\* installed.
C19_OverwrittenConsumed ==
    (pc = "store" /\ WAKER[cur.src] # WAKER_NONE)
        => woken[cur.src] = WAKER[cur.src]

\* C19 amended: the store step writes the slot of the polled source and no
\* other; a continuation it overwrites that the handler has not resumed was
\* installed by an earlier poll of the same future (polled again without a
\* wake-up) or by an earlier future on the same source that has since been
\* dropped or replaced, never by a future of another source.
C19_OverwrittenOwnOrDropped ==
    [][(pc = "store" /\ pc' = "unpend") =>
         /\ \A t \in Sources \ {cur.src} : WAKER'[t] = WAKER[t]
         /\ WAKER'[cur.src] = gen[cur.src]
         /\ (WAKER[cur.src] # WAKER_NONE /\ woken[cur.src] # WAKER[cur.src])
               => WAKER[cur.src] <= gen[cur.src]]_vars

\* Witness of C19: the store step is about to overwrite the continuation
\* of a dropped future, which the handler never resumed.
C19_Witness ==
    /\ pc = "store" /\ WAKER[cur.src] # WAKER_NONE
    /\ WAKER[cur.src] < cur.waker
    /\ woken[cur.src] # WAKER[cur.src]

\* C20 as stated: whenever a future's latest poll has returned pending, its
\* vector is unmasked with the slot holding that poll's continuation, or the
\* handler has fired since the unmask and resumed that continuation.
C20_NeverParkedMasked ==
    \A s \in Sources :
        last[s] = "pending" =>
            \/ ~masked[VecOf(s)] /\ WAKER[s] = gen[s]
            \/ woken[s] = gen[s] /\ fired[VecOf(s)]

\* C20 amended: the same, except while another future on the same shared
\* vector is inside the critical section of its own install; that install
\* leaves the parked future's slot alone and ends with the vector unmasked.
C20_MaskNotHeldAcrossSuspension ==
    \A s \in Sources :
        last[s] = "pending" =>
            \/ ~masked[VecOf(s)] /\ WAKER[s] = gen[s]
            \/ woken[s] = gen[s] /\ fired[VecOf(s)]
            \/ /\ InCritical(VecOf(s)) /\ cur.src # s
               /\ WAKER[s] = gen[s]

\* Witness of C20: a future parked on one pin, not resumed, while the install
\* of the other pin's future holds the shared vector masked.
C20_Witness ==
    /\ last["PA5"] = "pending" /\ woken["PA5"] # gen["PA5"]
    /\ InCritical("EXTI9_5") /\ cur.src = "PA6"
    /\ masked["EXTI9_5"] /\ WAKER["PA5"] = gen["PA5"]

\* C21: cancellation is safe for the next waiter.  Replacing a future
\* (the old one dropped, a new one created on the same source) leaves the
\* slot and the vector as they were, so a dropped pending future's
\* continuation stays in the slot and the handler may still wake it.  The
\* future created after such a drop starts an install only when its flag is
\* unset, is parked only with its own continuation in the slot, and, parked
\* with its event flag set and the handler not about to run, has been
\* resumed by the handler.
C21_CancellationSafe ==
    [][\A s \in Sources :
         /\ gen'[s] # gen[s] =>
               (WAKER' = WAKER /\ masked' = masked /\ pend' = pend)
         /\ (orphan[s].id # WAKER_NONE /\ gen'[s] = gen[s] /\ pc = "idle"
               /\ pc' = "mask" /\ cur'.src = s) => ~EventFlag(s)
         /\ (orphan'[s].id # WAKER_NONE /\ Parked(s)') =>
               /\ WAKER'[s] = gen'[s]
               /\ (EventFlag(s)' /\ ~IsrRunnable(VecOf(s))')
                     => woken'[s] = gen'[s]]_vars

\* Witness of C21: a future was dropped pending and unresumed, the handler
\* then woke its continuation, the future created afterwards installed its
\* own, its event happened and the handler resumed it.
C21_Witness ==
    \E s \in Sources :
        /\ orphan[s].id # WAKER_NONE /\ orphan[s].woke
        /\ orphan[s].id < gen[s]
        /\ Parked(s) /\ WAKER[s] = gen[s]
        /\ EventFlag(s) /\ woken[s] = gen[s]

\* A peripheral event flag goes from set to clear in this step.
FlagCleared ==
    \/ uif /\ ~uif'
    \/ tcif /\ ~tcif'
    \/ rxHtif /\ ~rxHtif'
    \/ rxTcif /\ ~rxTcif'
    \/ \E p \in Pins : pr[p] /\ ~pr'[p]
\* A handler run leaves every slot, every peripheral and the task as they
\* were, and changes the mask of its own vector only.
IsrFrame ==
    /\ \A v \in SingleVectors :
          WakerInterrupt(v) =>
              /\ WAKER' = WAKER
              /\ UNCHANGED <<uif, cnt, arr, tcif, txEn, txbuf, rxHtif, rxTcif,
                             rxEn, rxbuf, pr, taskVars>>
              /\ \A u \in Vectors \ {v} : masked'[u] = masked[u]
    /\ MultiInterrupt =>
          /\ WAKER' = WAKER
          /\ UNCHANGED <<uif, cnt, arr, tcif, txEn, txbuf, rxHtif, rxTcif,
                         rxEn, rxbuf, pr, taskVars>>
          /\ \A u \in SingleVectors : masked'[u] = masked[u]

\* C22 as stated: a handler run leaves every slot and every peripheral flag
\* unchanged, and a flag is cleared only in a poll made by the task.
C22_OnlyPollClearsFlag ==
    [][/\ IsrFrame
       /\ FlagCleared =>
            \/ DelayPoll
            \/ \E name \in SinkPolls : TxPoll(name)
            \/ TxRelease
            \/ RxPollNext
            \/ \E p \in Pins : TriggerPoll(p)]_vars

\* C22 amended: a handler run leaves every slot and every peripheral flag
\* unchanged; a flag is cleared only by the task, in a poll or in the
\* release of the receive stream (which stops the DMA channel).
C22_IsrFrame ==
    [][/\ IsrFrame
       /\ FlagCleared =>
            \/ DelayPoll
            \/ \E name \in SinkPolls : TxPoll(name)
            \/ TxRelease
            \/ RxPollNext
            \/ \E p \in Pins : TriggerPoll(p)
            \/ RxRelease]_vars

\* Witness of C22: a handler has run and masked its vector; the slot still
\* holds the continuation it woke and the peripheral flag is still set.
C22_Witness ==
    \E s \in Sources :
        /\ fired[VecOf(s)] /\ masked[VecOf(s)]
        /\ WAKER[s] # WAKER_NONE /\ woken[s] = WAKER[s]
        /\ EventFlag(s) /\ pend[VecOf(s)]

\* The overrun check peek makes after the closure, on the readable half.
PeekOverrun ==
    \/ readable_half = "First" /\ rxTcif
    \/ readable_half = "Second" /\ rxHtif

\* C23: stream pending and marker discipline.  poll_next returns pending
\* exactly when the readable half equals the marker and no error is
\* reported; it then starts the install and leaves the marker alone.  The
\* marker of a stream changes only in a poll that returns a data item, to
\* the half just delivered.  A poll that returns an error leaves the marker
\* and the slot alone, installs nothing and ends at once.
C23_MarkerDiscipline ==
    [][/\ (pc = "peek" /\ pc' # "peek") =>
            /\ pc' = "mask" <=> (readable_half = last_read_half
                                    /\ ~PeekOverrun)
            /\ pc' = "mask" =>
                  /\ cur' = [src |-> RX, waker |-> gen[RX]]
                  /\ UNCHANGED <<last_read_half, delivered, rxErrs>>
            /\ (pc' = "idle" /\ ~PeekOverrun) =>
                  /\ last'[RX] = "item"
                  /\ Len(delivered') = Len(delivered) + 1
       /\ (last_read_half' # last_read_half /\ gen'[RX] = gen[RX]) =>
            /\ pc = "peek" /\ last'[RX] = "item"
            /\ Len(delivered') = Len(delivered) + 1
            /\ last_read_half' = readable_half
            /\ delivered'[Len(delivered')].half = last_read_half'
       /\ (gen'[RX] = gen[RX] /\ pc \in {"idle", "peek"}
              /\ (rxErrs' # rxErrs
                    \/ (last'[RX] = "error" /\ last[RX] # "error"))) =>
            /\ last'[RX] = "error" /\ pc' = "idle"
            /\ UNCHANGED <<last_read_half, delivered, WAKER, masked, cur>>]_vars

\* Witness of C23: two halves have been delivered, the marker is the second
\* of them, and a later poll that found that same half readable has returned
\* pending with its continuation installed.
C23_Witness ==
    /\ Parked(RX) /\ WAKER[RX] = gen[RX] /\ ~masked[RX]
    /\ Len(delivered) = 2 /\ last_read_half = delivered[2].half
    /\ readable_half = last_read_half /\ rxErrs = 0

\* C24: bounded rechecks on the shared vector.  For a future on a pin that
\* never sees an edge of its own, the shared handler runs at most once per
\* edge of the other pin: an edge whose flag is left set does not make the
\* handler run again after every new install.
C24_BoundedRechecks ==
    \A p \in Pins : \A q \in Pins \ {p} :
        (gen[p] > 0 /\ edges[p] = 0) => isrRuns <= edges[q]

\* A future on pin p whose latest poll returned pending, whose edge has been
\* detected, and whose continuation the handler has not resumed yet.
Unresumed(p) == last[p] = "pending" /\ pr[p] /\ woken[p] # gen[p]

\* C25: two waiters on the shared vector do not lose each other's wakeups.
\* The install steps of one pin's future leave the other pin's slot as it
\* is.  Whenever a parked future's edge has been detected and it has not
\* been resumed, at any point of the other future's install or outside it,
\* the shared vector is pending and the slot holds its continuation, so the
\* handler runs as soon as the vector is unmasked; and a handler run resumes
\* every parked future whose continuation is in its slot.
C25_TwoWaiters ==
    [][\A p \in Pins :
         /\ (pc \in {"mask", "store", "unpend", "unmask"} /\ pc' # pc
               /\ cur.src \in Pins \ {p}) => WAKER'[p] = WAKER[p]
         /\ Unresumed(p)' =>
               (pend'["EXTI9_5"] /\ WAKER'[p] = gen'[p])
         /\ (MultiInterrupt /\ last[p] = "pending"
               /\ WAKER[p] = gen[p]) => woken'[p] = gen[p]]_vars

\* Witness of C25: one future is parked, the other is at the unmask step of
\* its install; the edge of the parked one was detected inside that
\* critical section (it is flagged, the vector is pending and still masked,
\* the parked future not yet resumed) and both slots are intact.
C25_Witness ==
    /\ pc = "unmask" /\ cur.src = "PA6"
    /\ Unresumed("PA5") /\ ~pr["PA6"]
    /\ WAKER["PA5"] = gen["PA5"] /\ WAKER["PA6"] = gen["PA6"]
    /\ pend["EXTI9_5"] /\ masked["EXTI9_5"]

\* C26: unmasked implies occupied.  A single-slot vector that is unmasked
\* has a continuation in its slot; a slot once filled is never emptied; so
\* the handler of a single-slot vector never runs with an empty slot and
\* always masks its vector.
C26_UnmaskedImpliesOccupied ==
    [][\A v \in SingleVectors :
         /\ ~masked[v] => WAKER[v] # WAKER_NONE
         /\ ~masked'[v] => WAKER'[v] # WAKER_NONE
         /\ WAKER[v] # WAKER_NONE => WAKER'[v] # WAKER_NONE
         /\ WakerInterrupt(v) => (WAKER[v] # WAKER_NONE /\ masked'[v])]_vars

\* Witness of C26: a single-slot vector that has been through a handler run
\* and a new install is unmasked and pending again, its slot occupied: the
\* handler is about to run on an occupied slot.
C26_Witness ==
    \E v \in SingleVectors :
        /\ IsrRunnable(v) /\ WAKER[v] # WAKER_NONE
        /\ isrFlag[v] /\ ~fired[v]

====
